---- MODULE Spec2Model ----
(***************************************************************************)
(* Model of src/src/lib.rs: an undirected Graph stored as a table of       *)
(* adjacency bit sets indexed by NodeId, and Graph::minimal_coloring, the  *)
(* two-phase (elimination, greedy assignment) colouring heuristic.         *)
(*                                                                         *)
(* NodeIds are the integers 0..len-1, as in the source.  A TVec is a       *)
(* function with domain 0..len-1, a TBitSet is a set, a Vec used as a      *)
(* stack is a sequence whose last element is the top.                      *)
(*                                                                         *)
(* The public mutators are one action each.  minimal_coloring is           *)
(* sequential code; it is modelled one loop iteration per step so that     *)
(* the intermediate states of both phases can be observed.  While it runs  *)
(* it holds `&self`, so no mutator is enabled until it has returned.       *)
(* NodeId arguments are drawn from the ids add_node has returned.          *)
(***************************************************************************)
EXTENDS Integers, FiniteSets, Sequences, TLC

\* Largest graph built (add_node is disabled beyond it).
MaxNodes == 4

\* usize::max_value(): the initial min_k and the "unassigned" colour.  Only
\* its being larger than every degree + 1 and every k is used.
UsizeMax == 2147483647

VARIABLES
    nodes,      \* Graph.nodes: NodeId -> set of neighbour NodeIds
    pc,         \* "idle" | "phase1" | "phase2" | "returned" | "panic"
    k,          \* minimal_coloring: let mut k
    stack,      \* minimal_coloring: let mut stack
    graph,      \* minimal_coloring: let mut graph (the working copy)
    alive,      \* minimal_coloring: let mut alive
    colors,     \* minimal_coloring: let mut colors
    coloring,   \* the Coloring handed to the caller
    lastOp      \* the public operation called last, with its arguments

vars == <<nodes, pc, k, stack, graph, alive, colors, coloring, lastOp>>

locals == <<k, stack, graph, alive, colors>>

\* TVec::len
len(v) == Cardinality(DOMAIN v)

\* TVec::index_iter
index_iter(v) == 0 .. (len(v) - 1)

\* TVec::push
push(v, e) == [i \in 0 .. len(v) |-> IF i < len(v) THEN v[i] ELSE e]

\* A TVec of length n filled with e (tvec![e; n]).
tvec(e, n) == [i \in 0 .. (n - 1) |-> e]

\* No Coloring has been returned (or it has been dropped).
NoColoring == [some |-> FALSE, k |-> 0, nodes |-> tvec(0, 0)]

\* The smallest element of a non-empty set of integers: TBitSet::iter().next()
first(S) == CHOOSE x \in S : \A y \in S : x <= y

----------------------------------------------------------------------------
(* Graph *)

\* Graph::check_invariants: TRUE iff no assertion fails.
check_invariants(g) ==
    \A a \in index_iter(g) :
        \A b \in g[a] : b < len(g) /\ a \in g[b]

Init ==
    /\ nodes = tvec({}, 0)
    /\ pc = "idle"
    /\ k = 0
    /\ stack = <<>>
    /\ graph = tvec({}, 0)
    /\ alive = {}
    /\ colors = tvec(0, 0)
    /\ coloring = NoColoring
    /\ lastOp = <<"new">>

\* add_edge that records the edge on one side only.
add_edge_one_sided(g, a, b) ==
    IF a # b
    THEN [g EXCEPT ![a] = g[a] \cup {b}]
    ELSE g

\* add_edge without the `a != b` test.
add_edge_unguarded(g, a, b) ==
    [g EXCEPT ![a] = g[a] \cup {b}, ![b] = g[b] \cup {a}]

\* The adjacency table after add_edge(a, b).
add_edge_nodes(g, a, b) ==
    IF a # b
    THEN [g EXCEPT ![a] = g[a] \cup {b}, ![b] = g[b] \cup {a}]
    ELSE g

\* The adjacency table after remove_edge(a, b).
remove_edge_nodes(g, a, b) ==
    [g EXCEPT ![a] = g[a] \ {b}, ![b] = g[b] \ {a}]

add_node ==
    /\ pc = "idle"
    /\ len(nodes) < MaxNodes
    /\ nodes' = push(nodes, {})
    /\ lastOp' = <<"add_node">>
    /\ UNCHANGED <<pc, locals, coloring>>

add_edge(a, b) ==
    /\ pc = "idle"
    /\ nodes' = add_edge_nodes(nodes, a, b)
    /\ lastOp' = <<"add_edge", a, b>>
    /\ UNCHANGED <<pc, locals, coloring>>

remove_edge(a, b) ==
    /\ pc = "idle"
    /\ nodes' = remove_edge_nodes(nodes, a, b)
    /\ lastOp' = <<"remove_edge", a, b>>
    /\ UNCHANGED <<pc, locals, coloring>>

\* A caller's own call of check_invariants.
call_check_invariants ==
    /\ pc = "idle"
    /\ pc' = IF check_invariants(nodes) THEN "idle" ELSE "panic"
    /\ lastOp' = <<"check_invariants">>
    /\ UNCHANGED <<nodes, locals, coloring>>

----------------------------------------------------------------------------
(* Graph::minimal_coloring *)

\* minimal_coloring starting from k = 1.
minimal_coloring_enter_k1 ==
    /\ pc = "idle"
    /\ lastOp' = <<"minimal_coloring">>
    /\ IF check_invariants(nodes)
       THEN /\ pc' = "phase1"
            /\ k' = 1
            /\ stack' = <<>>
            /\ graph' = nodes
            /\ alive' = index_iter(nodes)
            /\ UNCHANGED colors
       ELSE /\ pc' = "panic"
            /\ UNCHANGED locals
    /\ UNCHANGED <<nodes, coloring>>

\* Entry: check_invariants, then the initialisation of k, stack, graph, alive.
minimal_coloring_enter ==
    /\ pc = "idle"
    /\ lastOp' = <<"minimal_coloring">>
    /\ IF check_invariants(nodes)
       THEN /\ pc' = "phase1"
            /\ k' = 0
            /\ stack' = <<>>
            /\ graph' = nodes
            /\ alive' = index_iter(nodes)
            /\ UNCHANGED colors
       ELSE /\ pc' = "panic"
            /\ UNCHANGED locals
    /\ UNCHANGED <<nodes, coloring>>

\* The scan with `connected <= k` as the elimination test.
RECURSIVE scan_le(_, _, _, _, _)
scan_le(i, min_k, kk, g, al) ==
    IF i >= len(g)
    THEN [found |-> FALSE, node |-> 0, min_k |-> min_k]
    ELSE IF i \notin al
    THEN scan_le(i + 1, min_k, kk, g, al)
    ELSE LET connected == Cardinality(g[i]) IN
         IF connected <= kk
         THEN [found |-> TRUE, node |-> i, min_k |-> min_k]
         ELSE IF connected + 1 < min_k
         THEN scan_le(i + 1, connected + 1, kk, g, al)
         ELSE scan_le(i + 1, min_k, kk, g, al)

\* The scan with min_k = connected + 2.
RECURSIVE scan_plus2(_, _, _, _, _)
scan_plus2(i, min_k, kk, g, al) ==
    IF i >= len(g)
    THEN [found |-> FALSE, node |-> 0, min_k |-> min_k]
    ELSE IF i \notin al
    THEN scan_plus2(i + 1, min_k, kk, g, al)
    ELSE LET connected == Cardinality(g[i]) IN
         IF connected < kk
         THEN [found |-> TRUE, node |-> i, min_k |-> min_k]
         ELSE IF connected + 2 < min_k
         THEN scan_plus2(i + 1, connected + 2, kk, g, al)
         ELSE scan_plus2(i + 1, min_k, kk, g, al)

\* The scan with min_k = connected (the `+ 1` dropped).
RECURSIVE scan_plus0(_, _, _, _, _)
scan_plus0(i, min_k, kk, g, al) ==
    IF i >= len(g)
    THEN [found |-> FALSE, node |-> 0, min_k |-> min_k]
    ELSE IF i \notin al
    THEN scan_plus0(i + 1, min_k, kk, g, al)
    ELSE LET connected == Cardinality(g[i]) IN
         IF connected < kk
         THEN [found |-> TRUE, node |-> i, min_k |-> min_k]
         ELSE IF connected < min_k
         THEN scan_plus0(i + 1, connected, kk, g, al)
         ELSE scan_plus0(i + 1, min_k, kk, g, al)

\* The `for node in alive.iter()` scan from id i on, with the running min_k:
\* the first alive node with fewer than kk neighbours in g, or else the
\* min_k the scan ends with.
RECURSIVE scan(_, _, _, _, _)
scan(i, min_k, kk, g, al) ==
    IF i >= len(g)
    THEN [found |-> FALSE, node |-> 0, min_k |-> min_k]
    ELSE IF i \notin al
    THEN scan(i + 1, min_k, kk, g, al)
    ELSE LET connected == Cardinality(g[i]) IN
         IF connected < kk
         THEN [found |-> TRUE, node |-> i, min_k |-> min_k]
         ELSE IF connected + 1 < min_k
         THEN scan(i + 1, connected + 1, kk, g, al)
         ELSE scan(i + 1, min_k, kk, g, al)

\* Elimination that leaves the eliminated node in its neighbours' sets.
eliminate_none(g, al, node) == g

\* Elimination that also empties the eliminated node's own set.
eliminate_both(g, al, node) ==
    [other \in DOMAIN g |-> IF other = node THEN {} ELSE g[other] \ {node}]

\* The working graph after `for other in alive.iter() { graph[other].remove(node) }`
\* where al is alive with node already removed.
eliminate(g, al, node) ==
    [other \in DOMAIN g |-> IF other \in al THEN g[other] \ {node} ELSE g[other]]

\* Phase 1 working on the Graph's own table instead of a clone.
phase1_step_aliased ==
    /\ pc = "phase1"
    /\ alive # {}
    /\ LET r == scan(0, UsizeMax, k, graph, alive) IN
       IF r.found
       THEN /\ alive' = alive \ {r.node}
            /\ stack' = Append(stack, r.node)
            /\ graph' = eliminate(graph, alive \ {r.node}, r.node)
            /\ nodes' = eliminate(graph, alive \ {r.node}, r.node)
            /\ k' = k
       ELSE /\ k' = r.min_k
            /\ UNCHANGED <<alive, stack, graph, nodes>>
    /\ UNCHANGED <<pc, colors, coloring, lastOp>>

\* One iteration of the 'outer loop.
phase1_step ==
    /\ pc = "phase1"
    /\ alive # {}
    /\ LET r == scan(0, UsizeMax, k, graph, alive) IN
       IF r.found
       THEN /\ alive' = alive \ {r.node}
            /\ stack' = Append(stack, r.node)
            /\ graph' = eliminate(graph, alive \ {r.node}, r.node)
            /\ k' = k
       ELSE /\ k' = r.min_k
            /\ UNCHANGED <<alive, stack, graph>>
    /\ UNCHANGED <<nodes, pc, colors, coloring, lastOp>>

\* The 'outer loop ends; colors is initialised.
phase2_enter ==
    /\ pc = "phase1"
    /\ alive = {}
    /\ colors' = tvec(UsizeMax, len(graph))
    /\ pc' = "phase2"
    /\ UNCHANGED <<nodes, k, stack, graph, alive, coloring, lastOp>>

\* allowed_colors with no colour removed.
allowed_colors_all(kk, adj, cols) == 0 .. (kk - 1)

\* allowed_colors after the removals of one phase 2 iteration.
allowed_colors(kk, adj, cols) ==
    (0 .. (kk - 1)) \ {cols[other] : other \in adj}

\* One iteration of `while let Some(node) = stack.pop()`.
phase2_step ==
    /\ pc = "phase2"
    /\ stack # <<>>
    /\ LET node == stack[Len(stack)]
           allowed == allowed_colors(k, graph[node], colors)
       IN  /\ stack' = SubSeq(stack, 1, Len(stack) - 1)
           /\ IF allowed = {}
              THEN /\ pc' = "panic"
                   /\ UNCHANGED colors
              ELSE /\ colors' = [colors EXCEPT ![node] = first(allowed)]
                   /\ UNCHANGED pc
    /\ UNCHANGED <<nodes, k, graph, alive, coloring, lastOp>>

\* The stack is empty: Coloring { k, nodes: colors } is returned.
minimal_coloring_return ==
    /\ pc = "phase2"
    /\ stack = <<>>
    /\ coloring' = [some |-> TRUE, k |-> k, nodes |-> colors]
    /\ pc' = "returned"
    /\ k' = 0
    /\ graph' = tvec({}, 0)
    /\ colors' = tvec(0, 0)
    /\ UNCHANGED <<nodes, stack, alive, lastOp>>

\* The caller is done with the Coloring.
drop_coloring ==
    /\ pc = "returned"
    /\ coloring' = NoColoring
    /\ pc' = "idle"
    /\ UNCHANGED <<nodes, locals, lastOp>>

----------------------------------------------------------------------------

Next ==
    \/ add_node
    \/ \E a \in index_iter(nodes), b \in index_iter(nodes) : add_edge(a, b)
    \/ \E a \in index_iter(nodes), b \in index_iter(nodes) : remove_edge(a, b)
    \/ call_check_invariants
    \/ minimal_coloring_enter
    \/ phase1_step
    \/ phase2_enter
    \/ phase2_step
    \/ minimal_coloring_return
    \/ drop_coloring

Spec == Init /\ [][Next]_vars

\* minimal_coloring is straight-line sequential code: once entered, each of
\* its steps is taken.
FairSpec ==
    /\ Spec
    /\ WF_vars(phase1_step)
    /\ WF_vars(phase2_enter)
    /\ WF_vars(phase2_step)
    /\ WF_vars(minimal_coloring_return)

TypeOK ==
    /\ pc \in {"idle", "phase1", "phase2", "returned", "panic"}
    /\ DOMAIN nodes = index_iter(nodes)
    /\ \A a \in DOMAIN nodes : nodes[a] \subseteq DOMAIN nodes
    /\ k \in Nat
    /\ alive \subseteq DOMAIN nodes

----------------------------------------------------------------------------
(* Vocabulary of the properties *)

\* The set of nodes on the elimination stack.
StackSet == {stack[i] : i \in 1 .. Len(stack)}

\* The node on top of the elimination stack (the next one popped).
Top == stack[Len(stack)]

\* The largest element of a non-empty set of integers.
Maximum(S) == CHOOSE x \in S : \A y \in S : y <= x

\* The maximum node degree, 0 for the graph without nodes.
MaxDegree(g) ==
    IF DOMAIN g = {} THEN 0 ELSE Maximum({Cardinality(g[n]) : n \in DOMAIN g})

Edgeless(g) == \A n \in DOMAIN g : g[n] = {}

Symmetric(g) == \A a \in DOMAIN g, b \in DOMAIN g : (b \in g[a]) <=> (a \in g[b])

InBounds(g) == \A a \in DOMAIN g : \A b \in g[a] : b \in 0 .. (len(g) - 1)

\* The elimination orderings of g: f[n] is the time at which n is eliminated.
Orderings(g) ==
    {f \in [DOMAIN g -> DOMAIN g] : \A a \in DOMAIN g, b \in DOMAIN g : f[a] = f[b] => a = b}

\* The most neighbours eliminated later that any node has under ordering f.
Width(g, f) ==
    IF DOMAIN g = {} THEN 0
    ELSE Maximum({Cardinality({m \in g[n] : f[m] > f[n]}) : n \in DOMAIN g})

\* The reference definition of the degeneracy of g.
Degeneracy(g) ==
    CHOOSE d \in 0 .. len(g) :
        /\ \E f \in Orderings(g) : Width(g, f) <= d
        /\ \A e \in 0 .. (d - 1) : \A f \in Orderings(g) : Width(g, f) > e

\* The degree of n counted among the alive nodes of the Graph itself.
AliveDegree(n) == Cardinality(nodes[n] \cap alive)

\* minimal_coloring has just returned its Coloring.
Returned == pc = "returned" /\ coloring.some

\* Phase 1 has ended (the 'outer loop condition is false).
Phase1Done == pc = "phase1" /\ alive = {}

\* Phase 2 is about to pop a node.
AboutToPop == pc = "phase2" /\ stack # <<>>

----------------------------------------------------------------------------
(* Properties *)

\* C1: the Coloring returned by minimal_coloring is proper and in range:
\* adjacent nodes have different colours and every node's colour is in 0..k-1.
C1_ColoringValid ==
    Returned =>
        /\ DOMAIN coloring.nodes = DOMAIN nodes
        /\ \A a \in DOMAIN nodes : \A b \in nodes[a] :
               coloring.nodes[a] # coloring.nodes[b]
        /\ \A n \in DOMAIN nodes :
               0 <= coloring.nodes[n] /\ coloring.nodes[n] < coloring.k

\* C1 witness: the graph of tests::simple has been coloured with k = 3.
C1_Witness ==
    /\ Returned
    /\ len(nodes) = 4
    /\ nodes[0] = {2, 3} /\ nodes[1] = {2, 3}
    /\ nodes[2] = {0, 1, 3} /\ nodes[3] = {0, 1, 2}
    /\ coloring.k = 3
    /\ coloring.nodes[0] = coloring.nodes[1]

\* C2: minimal_coloring never panics: check_invariants passes, and whenever a
\* node is about to be popped it has fewer than k coloured neighbours and at
\* least one colour of 0..k-1 is free for it.
C2_NeverFails ==
    /\ pc # "panic"
    /\ AboutToPop =>
        /\ Cardinality({o \in nodes[Top] : colors[o] # UsizeMax}) < k
        /\ \E c \in 0 .. (k - 1) : \A o \in nodes[Top] : colors[o] # c

\* C2 witness: a node is about to be popped with k - 1 >= 2 coloured
\* neighbours holding k - 1 different colours (exactly one colour is free).
C2_Witness ==
    /\ AboutToPop
    /\ k >= 3
    /\ Cardinality({colors[o] : o \in {m \in nodes[Top] : colors[m] # UsizeMax}}) = k - 1

\* C3 as stated: an edgeless graph of any size is coloured with k = 0.
C3_EdgelessKZero ==
    (Returned /\ Edgeless(nodes)) => coloring.k = 0

\* C3 amended: an edgeless graph is coloured with k = 0 when it has no node
\* and with k = 1, every node given colour 0, when it has at least one.
C3_EdgelessK ==
    (Returned /\ Edgeless(nodes)) =>
        /\ coloring.k = (IF len(nodes) = 0 THEN 0 ELSE 1)
        /\ \A n \in DOMAIN nodes : coloring.nodes[n] = 0

\* C3 witness: an edgeless graph of three nodes or more has been coloured.
C3_Witness ==
    Returned /\ Edgeless(nodes) /\ len(nodes) >= 3

\* C4: the returned k is at most the maximum node degree + 1.
C4_UpperBound ==
    Returned => coloring.k <= MaxDegree(nodes) + 1

\* C4 witness: a graph with a node of degree 3 has been coloured with k = 2
\* (a star: the bound is met with room to spare).
C4_Witness ==
    Returned /\ MaxDegree(nodes) >= 3 /\ coloring.k = 2

\* C5: the adjacency is symmetric and every stored neighbour id is below the
\* number of nodes, so check_invariants never fails.
C5_Invariants ==
    /\ Symmetric(nodes)
    /\ InBounds(nodes)
    /\ check_invariants(nodes)
    /\ lastOp = <<"check_invariants">> => pc = "idle"

\* C5 witness: check_invariants has been called on a graph that has an edge
\* and, after a remove_edge, a pair of nodes without one.
C5_Witness ==
    /\ lastOp = <<"check_invariants">>
    /\ pc = "idle"
    /\ \E a \in DOMAIN nodes, b \in DOMAIN nodes, c \in DOMAIN nodes :
           a # b /\ b # c /\ a # c /\ b \in nodes[a] /\ c \notin nodes[a]

\* C6: no step of minimal_coloring, from its entry to the drop of its
\* result, changes the Graph's node table.
C6_GraphUnchanged ==
    [][lastOp' = <<"minimal_coloring">> => nodes' = nodes]_vars

\* C6 witness: both phases have run to their end (the Coloring is about to
\* be returned) and the working copy has lost edges the Graph still has.
C6_Witness ==
    /\ pc = "phase2"
    /\ \E n \in DOMAIN nodes : graph[n] # nodes[n]
    /\ stack = <<>>

\* C7: no node is ever in its own adjacency set, and add_edge(a, a) changes
\* no state.
C7_NoSelfLoops ==
    /\ [](\A a \in DOMAIN nodes : a \notin nodes[a])
    /\ [][\A a \in DOMAIN nodes :
            lastOp' = <<"add_edge", a, a>> =>
                UNCHANGED <<nodes, pc, locals, coloring>>]_vars

\* C7 witness: add_edge(a, a) has been called on a node that has neighbours.
C7_Witness ==
    /\ Len(lastOp) = 3
    /\ lastOp[1] = "add_edge"
    /\ lastOp[2] = lastOp[3]
    /\ nodes[lastOp[2]] # {}

\* C8 as stated: phase 1 ends with k equal to the degeneracy of the graph.
C8_KIsDegeneracy ==
    Phase1Done => k = Degeneracy(nodes)

\* C8 amended: phase 1 ends with k equal to the degeneracy + 1 when the graph
\* has at least one node, and with k = 0 when it has none.
C8_KIsDegeneracyPlusOne ==
    Phase1Done =>
        k = (IF len(nodes) = 0 THEN 0 ELSE Degeneracy(nodes) + 1)

\* C8 witness: phase 1 has ended on a graph whose degeneracy is 2 and below
\* its maximum degree.
C8_Witness ==
    Phase1Done /\ Degeneracy(nodes) = 2 /\ MaxDegree(nodes) = 3

\* C9, state part: during phase 1 the stack holds each eliminated node once
\* and the stack and alive partition the nodes.
C9_Partition ==
    pc = "phase1" =>
        /\ StackSet \cup alive = DOMAIN nodes
        /\ StackSet \cap alive = {}
        /\ Cardinality(StackSet) = Len(stack)

\* C9, step part: a scan that eliminates nothing sets k to 1 + the minimum
\* alive degree, which is larger than k, and then some alive node has fewer
\* than k neighbours, so that the next scan eliminates.
C9_Raise ==
    (pc = "phase1" /\ pc' = "phase1" /\ stack' = stack) =>
        /\ \E n \in alive : k' = 1 + AliveDegree(n)
        /\ \A n \in alive : k' <= 1 + AliveDegree(n)
        /\ k' > k
        /\ alive' = alive
        /\ \E n \in alive : Cardinality(graph'[n]) < k'

\* C9: phase 1 terminates with no alive node and every node on the stack
\* once; two consecutive scans never both eliminate nothing.
C9_Phase1Terminates ==
    /\ []C9_Partition
    /\ [][C9_Raise]_vars
    /\ (pc = "phase1") ~> (Phase1Done /\ StackSet = DOMAIN nodes /\ Len(stack) = len(nodes))

\* C9 witness: phase 1 has ended after raising k to 3 with four nodes stacked.
C9_Witness ==
    Phase1Done /\ Len(stack) = 4 /\ k = 3

\* C10, state part: the working adjacency of the node about to be popped is
\* the set of its neighbours eliminated after it, all of them coloured, and
\* it excludes the same colours as the Graph's own adjacency.
C10_WorkingAdjacency ==
    AboutToPop =>
        /\ graph[Top] = nodes[Top] \ StackSet
        /\ \A o \in graph[Top] : colors[o] < k
        /\ \A o \in nodes[Top] \cap StackSet : colors[o] = UsizeMax
        /\ {colors[o] : o \in graph[Top]} \cap (0 .. (k - 1))
               = {colors[o] : o \in nodes[Top]} \cap (0 .. (k - 1))

\* C10, step part: the popped node gets the smallest colour of 0..k-1 that
\* no neighbour in the Graph's own adjacency holds; no other colour changes.
C10_SmallestFree ==
    (AboutToPop /\ pc' = "phase2") =>
        LET free == {c \in 0 .. (k - 1) : \A o \in nodes[Top] : colors[o] # c} IN
        /\ colors'[Top] \in free
        /\ \A c \in free : colors'[Top] <= c
        /\ \A n \in DOMAIN colors \ {Top} : colors'[n] = colors[n]

\* C10: phase 2 gives each popped node the smallest colour free among its
\* neighbours in the original adjacency; the working adjacency read by the
\* code gives the same colours.
C10_GreedyOnOriginal ==
    /\ []C10_WorkingAdjacency
    /\ [][C10_SmallestFree]_vars

\* C10 witness: the node about to be popped has a neighbour already coloured
\* and a neighbour still on the stack.
C10_Witness ==
    /\ AboutToPop
    /\ graph[Top] # {}
    /\ nodes[Top] \cap StackSet # {}
====
